---- MODULE Spec2Model ----
(***************************************************************************)
(* A model of server.js: the Express product API.  One request is served   *)
(* per step, run to completion through the middleware chain in the order   *)
(* the chain is registered: bodyParser.json, logger, auth, the routes in   *)
(* declaration order, the error handler.                                   *)
(*                                                                         *)
(* JavaScript values are tagged records [t, v]; strings are sequences of   *)
(* one-character strings, so toLowerCase, includes and parseInt are        *)
(* computed, not assumed.                                                  *)
(***************************************************************************)
EXTENDS Integers, Sequences, FiniteSets, TLC

VARIABLES products, uuidCount, writes, req, res, ran, before

vars == <<products, uuidCount, writes, req, res, ran, before>>

(***************************************************************************)
(* Bounds of the model.                                                    *)
(***************************************************************************)
\* successful POST/PUT/DELETE requests in one behaviour
MaxWrites == 2

(***************************************************************************)
(* JavaScript values.                                                      *)
(***************************************************************************)
undefined == [t |-> "undefined", v |-> 0]
null == [t |-> "null", v |-> 0]
NaN == [t |-> "NaN", v |-> 0]
Str(s) == [t |-> "string", v |-> s]
Num(n) == [t |-> "number", v |-> n]
Bool(b) == [t |-> "boolean", v |-> b]
\* a repeated query parameter (?search=a&search=b) parses to an array
Arr(s) == [t |-> "array", v |-> s]

\* !x is true of these
Falsy(x) ==
    \/ x.t \in {"undefined", "null", "NaN"}
    \/ x.t = "string" /\ x.v = <<>>
    \/ x.t = "number" /\ x.v = 0
    \/ x.t = "boolean" /\ x.v = FALSE

\* x == null
Nullish(x) == x.t \in {"undefined", "null"}

\* a || b
OrElse(a, b) == IF Falsy(a) THEN b ELSE a

Upper == <<"A","B","C","D","E","F","G","H","I","J","K","L","M",
           "N","O","P","Q","R","S","T","U","V","W","X","Y","Z">>
Lower == <<"a","b","c","d","e","f","g","h","i","j","k","l","m",
           "n","o","p","q","r","s","t","u","v","w","x","y","z">>

LowerMap ==
    [c \in {Upper[i] : i \in 1..Len(Upper)} |->
        Lower[CHOOSE i \in 1..Len(Upper) : Upper[i] = c]]

LowerChar(c) == IF c \in DOMAIN LowerMap THEN LowerMap[c] ELSE c

\* String.prototype.toLowerCase on the characters of a string
toLowerCase(s) == [i \in 1..Len(s) |-> LowerChar(s[i])]

\* String.prototype.includes
includes(s, sub) ==
    \E i \in 0..(Len(s) - Len(sub)) :
        \A j \in 1..Len(sub) : s[i + j] = sub[j]

\* only strings have a toLowerCase method; calling it on anything else
\* throws TypeError
HasToLowerCase(x) == x.t = "string"

Digits == <<"0","1","2","3","4","5","6","7","8","9">>
IsDigit(c) == \E i \in 1..10 : Digits[i] = c
DigitVal(c) == (CHOOSE i \in 1..10 : Digits[i] = c) - 1
IsSpace(c) == c = " "

RECURSIVE SkipSpaces(_)
SkipSpaces(s) ==
    IF s # <<>> /\ IsSpace(Head(s)) THEN SkipSpaces(Tail(s)) ELSE s

RECURSIVE DigitPrefix(_, _)
\* the value of the longest prefix of s made of digits, continuing from acc
DigitPrefix(s, acc) ==
    IF s # <<>> /\ IsDigit(Head(s))
    THEN DigitPrefix(Tail(s), 10 * acc + DigitVal(Head(s)))
    ELSE acc

\* parseInt(x): undefined gives NaN; a string is read after its leading
\* blanks as an optional sign and the digits that follow, NaN when there is
\* none (no request of the model carries a 0x prefix, which parseInt would
\* read as hexadecimal)
parseInt(x) ==
    IF x.t # "string" THEN NaN
    ELSE LET s == SkipSpaces(x.v)
             neg == s # <<>> /\ Head(s) = "-"
             signed == s # <<>> /\ Head(s) \in {"-", "+"}
             d == IF signed THEN Tail(s) ELSE s
         IN IF d = <<>> \/ ~IsDigit(Head(d)) THEN NaN
            ELSE Num((IF neg THEN -1 ELSE 1) * DigitPrefix(d, 0))

\* Array.prototype.slice(start, end)
slice(s, start, end) ==
    LET n == Len(s)
        from == IF start < 0 THEN (IF n + start < 0 THEN 0 ELSE n + start)
                ELSE (IF start > n THEN n ELSE start)
        to == IF end < 0 THEN (IF n + end < 0 THEN 0 ELSE n + end)
              ELSE (IF end > n THEN n ELSE end)
    IN IF from < to THEN SubSeq(s, from + 1, to) ELSE <<>>

(***************************************************************************)
(* Strings of the program and of the requests.                             *)
(***************************************************************************)
sApi == <<"a","p","i">>
sProducts == <<"p","r","o","d","u","c","t","s">>
sStats == <<"s","t","a","t","s">>
sOther == <<"o","t","h","e","r">>
sParam == <<":","i","d">>
sKey == <<"1","2","3","4","5">>
sWrongKey == <<"1","2","3","4">>
sLaptop == <<"L","a","p","t","o","p">>
sLaptopDesc == <<"H","i","g","h","-","p","e","r","f","o","r","m","a","n","c","e",
                 " ","l","a","p","t","o","p"," ","w","i","t","h"," ","1","6","G",
                 "B"," ","R","A","M">>
sSmartphone == <<"S","m","a","r","t","p","h","o","n","e">>
sSmartphoneDesc == <<"L","a","t","e","s","t"," ","m","o","d","e","l"," ","w","i",
                     "t","h"," ","1","2","8","G","B"," ","s","t","o","r","a","g",
                     "e">>
sCoffeeMaker == <<"C","o","f","f","e","e"," ","M","a","k","e","r">>
sCoffeeMakerDesc == <<"P","r","o","g","r","a","m","m","a","b","l","e"," ","c","o",
                      "f","f","e","e"," ","m","a","k","e","r"," ","w","i","t","h",
                      " ","t","i","m","e","r">>
sElectronics == <<"e","l","e","c","t","r","o","n","i","c","s">>
sKitchen == <<"k","i","t","c","h","e","n">>
\* strings that only requests carry
sPhone == <<"P","h","o","n","e">>
sPhoneDesc == <<"S","m","a","r","t"," ","P","H","O","N","E">>
sElectronicsCap == <<"E","l","e","c","t","r","o","n","i","c","s">>
sMug == <<"M","u","g">>
sMugDesc == <<"T","e","a"," ","c","u","p">>
sKitchenCap == <<"K","i","t","c","h","e","n">>
sPHONE == <<"P","H","O","N","E">>

(***************************************************************************)
(* The product collection.                                                 *)
(***************************************************************************)
Fields == {"id", "name", "description", "price", "category", "inStock"}

Product(id, name, description, price, category, inStock) ==
    [id |-> id, name |-> name, description |-> description,
     price |-> price, category |-> category, inStock |-> inStock]

\* let products = [ ... ]
SeedProducts ==
    << Product(Str(<<"1">>), Str(sLaptop), Str(sLaptopDesc), Num(1200),
               Str(sElectronics), Bool(TRUE)),
       Product(Str(<<"2">>), Str(sSmartphone), Str(sSmartphoneDesc), Num(800),
               Str(sElectronics), Bool(TRUE)),
       Product(Str(<<"3">>), Str(sCoffeeMaker), Str(sCoffeeMakerDesc), Num(50),
               Str(sKitchen), Bool(FALSE)) >>

\* { ...a, ...b }: a key the second object carries overrides the first's
Spread(a, b) ==
    [k \in Fields |-> IF b[k].t = "undefined" THEN a[k] ELSE b[k]]

\* the n-th identifier uuidv4() returns: a fresh string each call, in a
\* format no identifier a client writes by hand has
uuidv4(n) == Str(<<"u","u","i","d","-", Digits[n + 1]>>)

\* products.findIndex(p => p.id === id), -1 when none matches
findIndex(ps, id) ==
    IF \E i \in 1..Len(ps) : ps[i].id = Str(id)
    THEN (CHOOSE i \in 1..Len(ps) :
            /\ ps[i].id = Str(id)
            /\ \A j \in 1..(i - 1) : ps[j].id # Str(id)) - 1
    ELSE -1

\* products.splice(index, 1): the collection without the element at index
splice(ps, index) ==
    SubSeq(ps, 1, index) \o SubSeq(ps, index + 2, Len(ps))

(***************************************************************************)
(* Errors and responses.                                                   *)
(***************************************************************************)
\* class NotFoundError
NotFoundError(message) ==
    [name |-> "NotFoundError", status |-> Num(404), message |-> message]

\* class ValidationError
ValidationError(message) ==
    [name |-> "ValidationError", status |-> Num(400), message |-> message]

\* a TypeError thrown by the runtime carries no status
TypeError(message) ==
    [name |-> "TypeError", status |-> undefined, message |-> message]

\* the error bodyParser.json() passes on for a body that is not JSON
ParseError ==
    [name |-> "SyntaxError", status |-> Num(400),
     message |-> "Unexpected token in JSON"]

NoError == [name |-> "", status |-> undefined, message |-> ""]

Response(status, shape, body) ==
    [status |-> status, shape |-> shape, body |-> body]

\* what a handler leaves behind: a response or an error passed to next(),
\* and the collection
Responded(response, ps, n, wrote) ==
    [response |-> response, err |-> NoError, threw |-> FALSE,
     products |-> ps, uuidCount |-> n, wrote |-> wrote]

Threw(err, ps, n) ==
    [response |-> Response(0, "none", <<>>), err |-> err, threw |-> TRUE,
     products |-> ps, uuidCount |-> n, wrote |-> FALSE]

\* the error handler answering 500 whatever status the error carries
errorHandler500(err) ==
    Response(500, "error", [error |-> err.name, message |-> err.message])

\* app.use((err, req, res, next) => ...)
errorHandler(err) ==
    Response(OrElse(err.status, Num(500)).v, "error",
             [error |-> err.name, message |-> err.message])

\* Express answers a request no route matched with its own 404 page
finalHandler(r) == Response(404, "html", <<"Cannot", r.method>>)

(***************************************************************************)
(* Middleware and route handlers.  A request is a record                   *)
(*   [method, path, apiKey, json, body, query]:                            *)
(* path is the sequence of the URL's segments, apiKey the x-api-key        *)
(* header (undefined when missing), json whether the body parses, body     *)
(* the parsed object (a field it does not carry is undefined), query the   *)
(* parsed query string.                                                    *)
(***************************************************************************)

\* validateProduct with `!price` and `!inStock` for the two `== null` tests
validateProductFalsy(body) ==
    ~ \/ Falsy(body.name)
      \/ Falsy(body.description)
      \/ Falsy(body.price)
      \/ Falsy(body.category)
      \/ Falsy(body.inStock)

\* validateProduct without the tests of price and inStock
validateProductStrings(body) ==
    ~ \/ Falsy(body.name)
      \/ Falsy(body.description)
      \/ Falsy(body.category)

\* function validateProduct: TRUE when it calls next(), FALSE when it throws
validateProduct(body) ==
    ~ \/ Falsy(body.name)
      \/ Falsy(body.description)
      \/ Nullish(body.price)
      \/ Falsy(body.category)
      \/ Nullish(body.inStock)

\* the auth middleware: TRUE when it calls next()
authorized(r) == r.apiKey = Str(sKey)

\* app.get('/')
root(r, ps, n) == Responded(Response(200, "text", "Welcome"), ps, n, FALSE)

\* the search filter's callback throws on a record whose name, or whose
\* description when the name does not match, has no toLowerCase
SearchThrows(p, search) ==
    \/ ~HasToLowerCase(p.name)
    \/ /\ ~includes(toLowerCase(p.name.v), search)
       /\ ~HasToLowerCase(p.description)

SearchKeeps(p, search) ==
    \/ includes(toLowerCase(p.name.v), search)
    \/ includes(toLowerCase(p.description.v), search)

\* app.get('/api/products')
listProducts(r, ps, n) ==
    LET q == r.query
        searchGiven == ~Nullish(q.search)
        categoryGiven == ~Nullish(q.category)
    IN
    IF searchGiven /\ ~HasToLowerCase(q.search)
    THEN Threw(TypeError("toLowerCase is not a function"), ps, n)
    ELSE
    LET search == IF searchGiven THEN Str(toLowerCase(q.search.v)) ELSE undefined
        searching == ~Falsy(search)
    IN
    IF searching /\ \E i \in 1..Len(ps) : SearchThrows(ps[i], search.v)
    THEN Threw(TypeError("toLowerCase is not a function"), ps, n)
    ELSE
    \* result.filter(...) is SelectSeq
    LET KeepS(p) == SearchKeeps(p, search.v)
        result1 == IF searching THEN SelectSeq(ps, KeepS) ELSE ps
    IN
    IF categoryGiven /\ ~HasToLowerCase(q.category)
    THEN Threw(TypeError("toLowerCase is not a function"), ps, n)
    ELSE
    LET category == IF categoryGiven
                    THEN Str(toLowerCase(q.category.v)) ELSE undefined
        filtering == ~Falsy(category)
    IN
    IF filtering /\ \E i \in 1..Len(result1) : ~HasToLowerCase(result1[i].category)
    THEN Threw(TypeError("toLowerCase is not a function"), ps, n)
    ELSE
    LET KeepC(p) == toLowerCase(p.category.v) = category.v
        result == IF filtering THEN SelectSeq(result1, KeepC) ELSE result1
        page == OrElse(parseInt(q.page), Num(1)).v
        limit == OrElse(parseInt(q.limit), Num(Len(result))).v
        start == (page - 1) * limit
        end == start + limit
        paginated == slice(result, start, end)
    IN Responded(Response(200, "array", paginated), ps, n, FALSE)

\* app.get('/api/products/:id')
getProduct(r, ps, n) ==
    LET index == findIndex(ps, r.path[3])
    IN IF index = -1
       THEN Threw(NotFoundError("Product not found"), ps, n)
       ELSE Responded(Response(200, "product", ps[index + 1]), ps, n, FALSE)

\* app.post('/api/products', validateProduct, ...)
createProduct(r, ps, n) ==
    IF ~validateProduct(r.body)
    THEN Threw(ValidationError("Missing required product fields"), ps, n)
    ELSE LET newProduct ==
                 Spread(Product(uuidv4(n), undefined, undefined, undefined,
                                undefined, undefined), r.body)
         IN Responded(Response(201, "product", newProduct),
                      Append(ps, newProduct), n + 1, TRUE)

\* app.put('/api/products/:id', validateProduct, ...)
updateProduct(r, ps, n) ==
    IF ~validateProduct(r.body)
    THEN Threw(ValidationError("Missing required product fields"), ps, n)
    ELSE LET index == findIndex(ps, r.path[3])
         IN IF index = -1
            THEN Threw(NotFoundError("Product not found"), ps, n)
            ELSE LET updated == Spread(ps[index + 1], r.body)
                 IN Responded(Response(200, "product", updated),
                              [ps EXCEPT ![index + 1] = updated], n, TRUE)

\* app.delete('/api/products/:id')
deleteProduct(r, ps, n) ==
    LET index == findIndex(ps, r.path[3])
    IN IF index = -1
       THEN Threw(NotFoundError("Product not found"), ps, n)
       ELSE Responded(Response(200, "deleted",
                               [message |-> "Product deleted",
                                product |-> ps[index + 1]]),
                      splice(ps, index), n, TRUE)

\* the categories object the statistics loop builds: one key per lowercased
\* category, counting the records that have it
CategoryCounts(ps) ==
    LET cats == {toLowerCase(ps[i].category.v) : i \in 1..Len(ps)}
    IN [c \in cats |->
          Cardinality({i \in 1..Len(ps) : toLowerCase(ps[i].category.v) = c})]

\* app.get('/api/products/stats')
productStats(r, ps, n) ==
    IF \E i \in 1..Len(ps) : ~HasToLowerCase(ps[i].category)
    THEN Threw(TypeError("toLowerCase is not a function"), ps, n)
    ELSE Responded(Response(200, "stats",
                            [totalProducts |-> Len(ps),
                             categories |-> CategoryCounts(ps)]),
                   ps, n, FALSE)

\* the routes, in the order server.js registers them
Routes ==
    << [method |-> "GET", pattern |-> <<>>, handler |-> "root"],
       [method |-> "GET", pattern |-> <<sApi, sProducts>>,
        handler |-> "listProducts"],
       [method |-> "GET", pattern |-> <<sApi, sProducts, sParam>>,
        handler |-> "getProduct"],
       [method |-> "POST", pattern |-> <<sApi, sProducts>>,
        handler |-> "createProduct"],
       [method |-> "PUT", pattern |-> <<sApi, sProducts, sParam>>,
        handler |-> "updateProduct"],
       [method |-> "DELETE", pattern |-> <<sApi, sProducts, sParam>>,
        handler |-> "deleteProduct"],
       [method |-> "GET", pattern |-> <<sApi, sProducts, sStats>>,
        handler |-> "productStats"] >>

\* Express's path matching: segment by segment, a :param segment matching
\* any segment, a literal one matching itself whatever the case
Matches(route, r) ==
    /\ route.method = r.method
    /\ Len(route.pattern) = Len(r.path)
    /\ \A i \in 1..Len(route.pattern) :
          \/ route.pattern[i] = sParam
          \/ toLowerCase(route.pattern[i]) = toLowerCase(r.path[i])

\* the router hands the request to the first route that matches, 0 when
\* none does; no handler of server.js passes a request on to a later route
MatchedRoute(r) ==
    IF \E i \in 1..Len(Routes) : Matches(Routes[i], r)
    THEN CHOOSE i \in 1..Len(Routes) :
            /\ Matches(Routes[i], r)
            /\ \A j \in 1..(i - 1) : ~Matches(Routes[j], r)
    ELSE 0

RunHandler(name, r, ps, n) ==
    CASE name = "root" -> root(r, ps, n)
      [] name = "listProducts" -> listProducts(r, ps, n)
      [] name = "getProduct" -> getProduct(r, ps, n)
      [] name = "createProduct" -> createProduct(r, ps, n)
      [] name = "updateProduct" -> updateProduct(r, ps, n)
      [] name = "deleteProduct" -> deleteProduct(r, ps, n)
      [] name = "productStats" -> productStats(r, ps, n)

\* the outcome of the whole chain on request r: the response sent, the
\* collection left, and the stages that ran, in order
Finished(response, ps, n, wrote, stages) ==
    [response |-> response, products |-> ps, uuidCount |-> n,
     wrote |-> wrote, ran |-> stages]

\* the middleware chain in registration order: bodyParser.json(), logger,
\* auth, routes, error handler
Pipeline(r, ps, n) ==
    IF ~r.json
    THEN Finished(errorHandler(ParseError), ps, n, FALSE,
                  <<"bodyParser", "errorHandler">>)
    ELSE IF ~authorized(r)
    THEN Finished(Response(401, "message",
                           [message |-> "Unauthorized - Invalid API Key"]),
                  ps, n, FALSE, <<"bodyParser", "logger", "auth">>)
    ELSE LET i == MatchedRoute(r)
         IN IF i = 0
            THEN Finished(finalHandler(r), ps, n, FALSE,
                          <<"bodyParser", "logger", "auth", "finalhandler">>)
            ELSE LET h == Routes[i].handler
                     o == RunHandler(h, r, ps, n)
                 IN IF o.threw
                    THEN Finished(errorHandler(o.err), o.products, o.uuidCount,
                                  FALSE,
                                  <<"bodyParser", "logger", "auth", h,
                                    "errorHandler">>)
                    ELSE Finished(o.response, o.products, o.uuidCount, o.wrote,
                                  <<"bodyParser", "logger", "auth", h>>)

(***************************************************************************)
(* The requests the model sends.                                           *)
(***************************************************************************)
Request(method, path, apiKey, json, body, query) ==
    [method |-> method, path |-> path, apiKey |-> apiKey, json |-> json,
     body |-> body, query |-> query]

Query(search, category, page, limit) ==
    [search |-> search, category |-> category, page |-> page, limit |-> limit]

NoQuery == Query(undefined, undefined, undefined, undefined)

\* a request without a body reaches the handlers with req.body = {}
EmptyBody ==
    Product(undefined, undefined, undefined, undefined, undefined, undefined)

\* the x-api-key header: missing, right, wrong
Keys == {undefined, Str(sKey), Str(sWrongKey)}

PhoneBody ==
    Product(undefined, Str(sPhone), Str(sPhoneDesc), Num(999),
            Str(sElectronicsCap), Bool(TRUE))

\* price 0 and inStock false
MugBody ==
    Product(undefined, Str(sMug), Str(sMugDesc), Num(0), Str(sKitchenCap),
            Bool(FALSE))

\* bodies validateProduct lets through: two of them with an id of their
\* own, one with a name that is not a string
ValidBodies ==
    { PhoneBody,
      MugBody,
      [PhoneBody EXCEPT !.id = Str(<<"1">>)],
      [MugBody EXCEPT !.id = Str(sStats), !.name = Num(7)] }

\* bodies validateProduct stops: a field missing, empty or null
InvalidBodies ==
    { EmptyBody,
      [EmptyBody EXCEPT !.price = Num(999)],
      [PhoneBody EXCEPT !.name = Str(<<>>)],
      [PhoneBody EXCEPT !.description = undefined],
      [PhoneBody EXCEPT !.price = null],
      [PhoneBody EXCEPT !.category = undefined],
      [MugBody EXCEPT !.inStock = null],
      [MugBody EXCEPT !.inStock = undefined, !.id = Str(<<"1">>)] }

Bodies == ValidBodies \cup InvalidBodies

\* the :id segments tried: seeds, the first generated id, one never used
PathIds == {<<"1">>, <<"2">>, uuidv4(0).v, <<"9">>}

Queries ==
    { Query(s, c, p, l) :
        s \in {undefined, Str(sPHONE), Arr(<<sPhone, sMug>>)},
        c \in {undefined, Str(sElectronicsCap)},
        p \in {undefined, Str(<<"2">>), Str(<<"-","1">>), Str(<<"0">>)},
        l \in {undefined, Str(<<"1">>), Str(<<"x">>)} }

\* a request with the right key is tried with every input of `all`, one
\* with a missing or wrong key with those of `some`
Inputs(key, all, some) == IF key = Str(sKey) THEN all ELSE some

(***************************************************************************)
(* The state machine.  The server is idle (req = NoRequest) or has just    *)
(* answered req with res; `before` is the collection as the request found  *)
(* it, `ran` the stages that ran for it.                                   *)
(***************************************************************************)
NoRequest == Request("NONE", <<>>, undefined, TRUE, EmptyBody, NoQuery)
NoResponse == Response(0, "none", <<>>)

Init ==
    /\ products = SeedProducts
    /\ uuidCount = 0
    /\ writes = 0
    /\ req = NoRequest
    /\ res = NoResponse
    /\ ran = <<>>
    /\ before = SeedProducts

\* one request, run to completion through the whole chain; the actions
\* below take it when the server is idle
Serve(r) ==
    \E o \in {Pipeline(r, products, uuidCount)} :
          /\ o.wrote => writes < MaxWrites
          /\ products' = o.products
          /\ uuidCount' = o.uuidCount
          /\ writes' = IF o.wrote THEN writes + 1 ELSE writes
          /\ req' = r
          /\ res' = o.response
          /\ ran' = o.ran
          /\ before' = products

\* GET /
GetRoot ==
    /\ req = NoRequest
    /\ \E key \in Keys :
           Serve(Request("GET", <<>>, key, TRUE, EmptyBody, NoQuery))

\* GET /api/products?search=&category=&page=&limit=
ListProducts ==
    /\ req = NoRequest
    /\ \E key \in Keys :
         \E q \in Inputs(key, Queries, {NoQuery}) :
           Serve(Request("GET", <<sApi, sProducts>>, key, TRUE, EmptyBody, q))

\* GET /api/products/<id>
GetProduct ==
    /\ req = NoRequest
    /\ \E key \in Keys :
         \E id \in Inputs(key, PathIds, {<<"1">>}) :
           Serve(Request("GET", <<sApi, sProducts, id>>, key, TRUE, EmptyBody,
                         NoQuery))

\* GET /api/products/stats
GetStats ==
    /\ req = NoRequest
    /\ \E key \in Keys :
           Serve(Request("GET", <<sApi, sProducts, sStats>>, key, TRUE, EmptyBody,
                         NoQuery))

\* POST /api/products, with a body that parses or one that does not
CreateProduct ==
    /\ req = NoRequest
    /\ \E key \in Keys, json \in BOOLEAN :
         \E body \in IF json THEN Inputs(key, Bodies, {PhoneBody})
                     ELSE {EmptyBody} :
           Serve(Request("POST", <<sApi, sProducts>>, key, json, body, NoQuery))

\* PUT /api/products/<id>, with a body that parses or one that does not
UpdateProduct ==
    /\ req = NoRequest
    /\ \E key \in Keys, json \in BOOLEAN :
         \E id \in Inputs(key, PathIds, {<<"1">>}) :
           \E body \in IF json THEN Inputs(key, Bodies, {MugBody})
                       ELSE {EmptyBody} :
             Serve(Request("PUT", <<sApi, sProducts, id>>, key, json, body,
                           NoQuery))

\* DELETE /api/products/<id>
DeleteProduct ==
    /\ req = NoRequest
    /\ \E key \in Keys :
         \E id \in Inputs(key, PathIds, {<<"1">>}) :
           Serve(Request("DELETE", <<sApi, sProducts, id>>, key, TRUE, EmptyBody,
                         NoQuery))

\* a request no route is registered for: GET /other, DELETE /api/products
Unrouted ==
    /\ req = NoRequest
    /\ \E key \in Keys :
         \E method \in {"GET", "DELETE"} :
           Serve(Request(method,
                         IF method = "GET" THEN <<sOther>> ELSE <<sApi, sProducts>>,
                         key, TRUE, EmptyBody, NoQuery))

\* the response has been sent; the server waits for the next request
Complete ==
    /\ req # NoRequest
    /\ req' = NoRequest
    /\ res' = NoResponse
    /\ ran' = <<>>
    /\ before' = products
    /\ UNCHANGED <<products, uuidCount, writes>>

Next ==
    \/ GetRoot
    \/ ListProducts
    \/ GetProduct
    \/ GetStats
    \/ CreateProduct
    \/ UpdateProduct
    \/ DeleteProduct
    \/ Unrouted
    \/ Complete

Spec == Init /\ [][Next]_vars

(***************************************************************************)
(* Vocabulary of the properties.  They are stated on the state the server  *)
(* is in right after answering: req, res, and the collection before and    *)
(* after.                                                                  *)
(***************************************************************************)
Answered == req # NoRequest
KeyOk == req.apiKey = Str(sKey)
IsCollectionPath == req.path = <<sApi, sProducts>>
IsItemPath ==
    /\ Len(req.path) = 3
    /\ req.path[1] = sApi
    /\ req.path[2] = sProducts
IsPost == req.method = "POST" /\ IsCollectionPath
IsList == req.method = "GET" /\ IsCollectionPath
IsPut == req.method = "PUT" /\ IsItemPath
IsDelete == req.method = "DELETE" /\ IsItemPath
IsStats == req.method = "GET" /\ IsItemPath /\ req.path[3] = sStats
Success == res.status \in {200, 201}
RouteStages ==
    {"root", "listProducts", "getProduct", "createProduct", "updateProduct",
     "deleteProduct", "productStats"}
RouteRan == \E i \in 1..Len(ran) : ran[i] \in RouteStages
\* the response a GET /api/products/<id> sent next, with the right key, gets
NextGet(id) ==
    Pipeline(Request("GET", <<sApi, sProducts, id>>, Str(sKey), TRUE,
                     EmptyBody, NoQuery), products, uuidCount).response
\* the position in `before` of the record the request's :id names, 0 if none
Target ==
    IF \E i \in 1..Len(before) : before[i].id = Str(req.path[3])
    THEN CHOOSE i \in 1..Len(before) :
            /\ before[i].id = Str(req.path[3])
            /\ \A j \in 1..(i - 1) : before[j].id # Str(req.path[3])
    ELSE 0
\* a field of the body the five-fields rule counts as missing
Absent(x) == x.t \in {"undefined", "null"}
Empty(x) ==
    \/ Absent(x)
    \/ x = Str(<<>>)
    \/ x = Num(0)
    \/ x = Bool(FALSE)
    \/ x = NaN
BodyIncomplete ==
    \/ Empty(req.body.name)
    \/ Empty(req.body.description)
    \/ Empty(req.body.category)
    \/ Absent(req.body.price)
    \/ Absent(req.body.inStock)

(***************************************************************************)
(* C1.  A request whose x-api-key is missing or wrong gets 401 with        *)
(* {message: 'Unauthorized - Invalid API Key'}, whatever its method, path  *)
(* and body, before any route logic runs, and the collection is unchanged. *)
(* Fails: bodyParser.json() is registered before the auth middleware, so   *)
(* a body that is not JSON is answered 400 by the error handler.           *)
(***************************************************************************)
C1_UnauthorizedAlways401 ==
    (Answered /\ ~KeyOk) =>
        /\ res.status = 401
        /\ res.shape = "message"
        /\ res.body = [message |-> "Unauthorized - Invalid API Key"]
        /\ ~RouteRan
        /\ products = before

(***************************************************************************)
(* C2.  A POST /api/products with a body that passes validation answers    *)
(* 201, stores a record whose id no product already had, grows the         *)
(* collection by one, and a GET of that id sent next returns the record.   *)
(* Fails: the body is spread after the generated id, so a body carrying    *)
(* its own id stores that id.                                              *)
(***************************************************************************)
C2_PostCreatesFreshRecord ==
    (Answered /\ KeyOk /\ IsPost /\ req.json /\ ~BodyIncomplete) =>
        /\ res.status = 201
        /\ res.shape = "product"
        /\ \A i \in 1..Len(before) : before[i].id # res.body.id
        /\ Len(products) = Len(before) + 1
        /\ products[Len(products)] = res.body
        /\ NextGet(res.body.id.v).status = 200
        /\ NextGet(res.body.id.v).body = res.body

(***************************************************************************)
(* C3.  No two live products have the same id, and a product's id never    *)
(* changes: a PUT leaves the id at every position as it was.               *)
(* Fails: POST and PUT both let the body's id override the record's.       *)
(***************************************************************************)
C3_IdsUniqueAndImmutable ==
    /\ \A i, j \in 1..Len(products) :
          i # j => products[i].id # products[j].id
    /\ (Answered /\ IsPut /\ Len(products) = Len(before)) =>
          \A i \in 1..Len(products) : products[i].id = before[i].id

(***************************************************************************)
(* C4.  A PUT on an existing id with a body carrying some of the fields    *)
(* answers 200 and changes exactly the fields the body carries, leaving    *)
(* the id, the other fields, the other products and the order alone; a     *)
(* PUT on an id not in the collection answers 404 and changes nothing.     *)
(* Fails: validateProduct runs on PUT too and rejects a partial body.      *)
(***************************************************************************)
C4_PutChangesGivenFieldsOnly ==
    (Answered /\ KeyOk /\ IsPut /\ req.json) =>
        IF Target = 0
        THEN res.status = 404 /\ products = before
        ELSE /\ res.status = 200
             /\ Len(products) = Len(before)
             /\ \A i \in 1..Len(before) : i # Target => products[i] = before[i]
             /\ products[Target].id = before[Target].id
             /\ \A k \in Fields \ {"id"} :
                   products[Target][k] =
                       IF req.body[k] = undefined THEN before[Target][k]
                       ELSE req.body[k]

(***************************************************************************)
(* C5.  GET /api/products/stats with the right key reaches the statistics  *)
(* handler and answers 200 with totalProducts the size of the collection   *)
(* and categories the count per lowercased category: on the seed records   *)
(* {totalProducts: 3, categories: {electronics: 2, kitchen: 1}}.           *)
(* Fails: /api/products/:id is registered first and takes the request      *)
(* with id = 'stats'.                                                      *)
(***************************************************************************)
C5_StatsReachable ==
    (Answered /\ KeyOk /\ IsStats) =>
        /\ res.status = 200
        /\ res.shape = "stats"
        /\ ran[Len(ran)] = "productStats"
        /\ res.body.totalProducts = Len(products)
        /\ \A i \in 1..Len(products) :
              LET c == toLowerCase(products[i].category.v)
              IN /\ c \in DOMAIN res.body.categories
                 /\ res.body.categories[c] =
                        Cardinality({j \in 1..Len(products) :
                            toLowerCase(products[j].category.v) = c})
        /\ products = SeedProducts =>
              res.body = [totalProducts |-> 3,
                          categories |-> (sElectronics :> 2) @@ (sKitchen :> 1)]

(***************************************************************************)
(* C6.  A POST or PUT whose body parsed and whose key is right is answered *)
(* 400 ValidationError 'Missing required product fields' exactly when      *)
(* name, description or category is absent or falsy, or price or inStock   *)
(* is null or undefined, and then the collection is unchanged; a body      *)
(* with price 0, inStock false and the three strings non-empty is not      *)
(* rejected.                                                               *)
(***************************************************************************)
C6_RejectedIffFieldMissing ==
    (Answered /\ KeyOk /\ req.json /\ (IsPost \/ IsPut)) =>
        /\ BodyIncomplete <=>
              /\ res.status = 400
              /\ res.shape = "error"
              /\ res.body = [error |-> "ValidationError",
                             message |-> "Missing required product fields"]
        /\ BodyIncomplete => products = before
        /\ ( /\ req.body.price = Num(0)
             /\ req.body.inStock = Bool(FALSE)
             /\ ~Empty(req.body.name)
             /\ ~Empty(req.body.description)
             /\ ~Empty(req.body.category) ) =>
              /\ res.status # 400
              /\ IsPost => res.status = 201 /\ Len(products) = Len(before) + 1

\* a POST with price 0 and inStock false was answered 201 and stored
C6_Witness ==
    /\ Answered /\ KeyOk /\ IsPost /\ req.json
    /\ req.body.price = Num(0)
    /\ req.body.inStock = Bool(FALSE)
    /\ res.status = 201
    /\ products[Len(products)].price = Num(0)

(***************************************************************************)
(* C7.  DELETE /api/products/:id on an id in the collection answers 200    *)
(* with {message: 'Product deleted', product: the removed record}, removes *)
(* that one record and keeps the others in order, and a GET of the same id *)
(* sent next answers 404; on an absent id it answers 404 and changes       *)
(* nothing.                                                                *)
(* Fails after the duplicate ids of C3: the first record with the id goes, *)
(* the second answers the GET.                                             *)
(***************************************************************************)
C7_DeleteThenGet404 ==
    (Answered /\ KeyOk /\ IsDelete) =>
        IF Target = 0
        THEN res.status = 404 /\ products = before
        ELSE /\ res.status = 200
             /\ res.shape = "deleted"
             /\ res.body = [message |-> "Product deleted",
                            product |-> before[Target]]
             /\ products = SubSeq(before, 1, Target - 1)
                              \o SubSeq(before, Target + 1, Len(before))
             /\ NextGet(req.path[3]).status = 404

(***************************************************************************)
(* C8.  GET /api/products never fails: for every search, category, page    *)
(* and limit it answers 200 with the collection filtered by search, then   *)
(* by category, in insertion order, cut to the positions [start, end),     *)
(* start = (page-1)*limit, end = start+limit, page defaulting to 1 and     *)
(* limit to the filtered size; positions outside the sequence give an      *)
(* empty or shorter result.                                                *)
(* Fails: a repeated search parameter is an array and has no toLowerCase   *)
(* (500), and a negative start or end counts from the end in slice().      *)
(***************************************************************************)
C8_ListIsFilteredWindow ==
    (Answered /\ KeyOk /\ IsList) =>
        /\ res.status = 200
        /\ res.shape = "array"
        /\ LET q == req.query
               search == IF q.search = undefined THEN <<>>
                         ELSE toLowerCase(q.search.v)
               category == IF q.category = undefined THEN <<>>
                           ELSE toLowerCase(q.category.v)
               BySearch(p) ==
                   \/ search = <<>>
                   \/ includes(toLowerCase(p.name.v), search)
                   \/ includes(toLowerCase(p.description.v), search)
               ByCategory(p) ==
                   \/ category = <<>>
                   \/ toLowerCase(p.category.v) = category
               filtered == SelectSeq(SelectSeq(products, BySearch), ByCategory)
               page == OrElse(parseInt(q.page), Num(1)).v
               limit == OrElse(parseInt(q.limit), Num(Len(filtered))).v
               start == (page - 1) * limit
               end == start + limit
               inside == {i \in 1..Len(filtered) : start < i /\ i <= end}
               IsMin(i) == \A j \in inside : i <= j
               IsMax(i) == \A j \in inside : j <= i
           IN res.body =
                 IF inside = {} THEN <<>>
                 ELSE SubSeq(filtered, CHOOSE i \in inside : IsMin(i),
                             CHOOSE i \in inside : IsMax(i))

(***************************************************************************)
(* C9, as first stated.  Every response that is not a success, to   *)
(* a request with the right key, is {error, message} with status 400 for   *)
(* ValidationError, 404 for NotFoundError and 500 for any other error.     *)
(* Fails: the body parser's SyntaxError carries status 400, and a request  *)
(* no route matches gets the framework's 404 page.                         *)
(***************************************************************************)
C9_Original ==
    (Answered /\ KeyOk /\ ~Success) =>
        /\ res.shape = "error"
        /\ \/ res.body.error = "ValidationError" /\ res.status = 400
           \/ res.body.error = "NotFoundError" /\ res.status = 404
           \/ /\ res.body.error \notin {"ValidationError", "NotFoundError"}
              /\ res.status = 500

(***************************************************************************)
(* C9, amended.  A response that is not a success is one of three: from    *)
(* the error handler, {error: the error's name, message} with the status   *)
(* the error carries and 500 when it carries none (ValidationError 400,    *)
(* NotFoundError 404; SyntaxError 400 for a body that is not JSON,         *)
(* whatever the key; TypeError 500); the 401 {message} for a missing or    *)
(* wrong key; the framework's 404 page for a request with the right key    *)
(* that no route matches.                                                  *)
(***************************************************************************)
C9_ErrorShapes ==
    (Answered /\ ~Success) =>
        \/ /\ res.shape = "error"
           /\ ran[Len(ran)] = "errorHandler"
           /\ \/ /\ res.body.error = "ValidationError"
                 /\ res.status = 400
                 /\ KeyOk /\ req.json /\ (IsPost \/ IsPut)
              \/ /\ res.body.error = "NotFoundError"
                 /\ res.status = 404
                 /\ KeyOk /\ req.json /\ IsItemPath
              \/ /\ res.body.error = "SyntaxError"
                 /\ res.status = 400
                 /\ ~req.json
              \/ /\ res.body.error = "TypeError"
                 /\ res.status = 500
                 /\ KeyOk /\ req.json /\ IsList
        \/ /\ res.shape = "message"
           /\ res.status = 401
           /\ ~KeyOk /\ req.json
        \/ /\ res.shape = "html"
           /\ res.status = 404
           /\ KeyOk /\ req.json
           /\ \A i \in 1..Len(Routes) : ~Matches(Routes[i], req)

\* a body that is not JSON, sent with the right key, was answered 400 with
\* {error: 'SyntaxError', ...} by the error handler
C9_Witness ==
    /\ Answered /\ KeyOk /\ ~req.json
    /\ res.status = 400
    /\ res.shape = "error"
    /\ res.body.error = "SyntaxError"

(***************************************************************************)
(* C10.  Every live product has its five fields populated: name,           *)
(* description and category truthy, price and inStock neither null nor     *)
(* undefined.                                                              *)
(***************************************************************************)
C10_FieldsPopulated ==
    \A i \in 1..Len(products) :
        /\ ~Empty(products[i].name)
        /\ ~Empty(products[i].description)
        /\ ~Empty(products[i].category)
        /\ ~Absent(products[i].price)
        /\ ~Absent(products[i].inStock)

\* a PUT has just replaced fields of a record, after a POST had added one
C10_Witness ==
    /\ Answered /\ IsPut /\ res.status = 200
    /\ products # before
    /\ Len(products) = Len(SeedProducts) + 1

====
